---------------------------- MODULE Spec2Model ----------------------------
(***************************************************************************)
(* Model of CICheckRunRerunDialog (app/src/ui/check-runs/                  *)
(* ci-check-run-rerun-dialog.tsx): the classification of check runs into   *)
(* rerunnable / nonRerunnable from fetched check suites, and the           *)
(* submission of the re-run.                                               *)
(*                                                                         *)
(* Time is counted in hours.  A created_at string is modelled as the pair  *)
(* <<day, hour>> it denotes and Date.parse turns it into a number.         *)
(***************************************************************************)
EXTENDS Integers, Sequences, FiniteSets, TLC

(***************************************************************************)
(* Bounds of the model.                                                    *)
(***************************************************************************)
MaxRuns == 2
NumSuites == 2
MaxDrift == 0
MaxSubmits == 2

(***************************************************************************)
(* Program constants.                                                      *)
(***************************************************************************)
NullId == 0
RerunWindowDays == 30
HoursPerDay == 24

(***************************************************************************)
(* Value domains.                                                          *)
(***************************************************************************)
Failure == "failure"
Completed == "completed"
Conclusions == {Failure, "success"}
Statuses == {Completed, "in_progress"}
SuiteIds == 1..NumSuites
PrRefs == {"refs/pull/1/head"}
\* created_at strings: day 0 at 0:00, 1:00 and 2:00
CreatedAts == {<<0, 0>>, <<0, 1>>, <<0, 2>>}
\* what Date.now() can return: day 30 at 1:00, or up to MaxDrift hours later
Nows == {RerunWindowDays * HoursPerDay + 1 + h : h \in 0..MaxDrift}

CheckRunShapes == [checkSuiteId : SuiteIds \cup {NullId}, conclusion : Conclusions]

RECURSIVE SeqsUpTo(_, _)
SeqsUpTo(S, n) ==
  IF n = 0 THEN {<<>>}
  ELSE LET shorter == SeqsUpTo(S, n - 1)
       IN shorter \cup {Append(s, x) : s \in {t \in shorter : Len(t) = n - 1}, x \in S}

\* IRefCheck: a run is identified by its id, here its position in the list
WithIds(shapes) ==
  [i \in 1..Len(shapes) |->
     [id |-> i, checkSuiteId |-> shapes[i].checkSuiteId,
      conclusion |-> shapes[i].conclusion]]

CheckRunLists == {WithIds(s) : s \in SeqsUpTo(CheckRunShapes, MaxRuns)}

VARIABLES
  checkRuns,           \* props.checkRuns
  failedOnly,          \* props.failedOnly
  prRef,               \* props.prRef
  loadingCheckSuites,  \* state.loadingCheckSuites
  loadingRerun,        \* state.loadingRerun
  rerunnable,          \* state.rerunnable
  nonRerunnable,       \* state.nonRerunnable
  checkSuitesPromises, \* the fetchCheckSuite promises, in the order issued
  classPc,             \* position of determineRerunnability
  now,                 \* Date.now() as read by the eligibility test (0: not read)
  subs,                \* position of every onSubmit invocation
  rerequestCalls,      \* arguments of the dispatcher.rerequestCheckSuites calls
  refreshCalls,        \* arguments of the dispatcher.manualRefreshSubscription calls
  recordCalls,         \* number of dispatcher.recordRerunChecks calls
  dismissCalls         \* number of props.onDismissed calls

vars == <<checkRuns, failedOnly, prRef, loadingCheckSuites, loadingRerun,
          rerunnable, nonRerunnable, checkSuitesPromises, classPc, now, subs,
          rerequestCalls, refreshCalls, recordCalls, dismissCalls>>

props == <<checkRuns, failedOnly, prRef>>
calls == <<rerequestCalls, refreshCalls, recordCalls, dismissCalls>>


(***************************************************************************)
(* Helpers standing for the JavaScript library calls the code makes.       *)
(***************************************************************************)
\* Array.prototype.includes
Includes(arr, x) == \E i \in 1..Len(arr) : arr[i] = x

\* new Set(array), iterated: the distinct elements in order of first occurrence
RECURSIVE SetOf(_)
SetOf(arr) ==
  IF arr = <<>> THEN <<>>
  ELSE LET front == SetOf(SubSeq(arr, 1, Len(arr) - 1))
           last == arr[Len(arr)]
       IN IF Includes(front, last) THEN front ELSE Append(front, last)

\* Date.parse of a created_at string
DateParse(str) == str[1] * HoursPerDay + str[2]

\* offsetFromNow(value, 'days'), with t the current time
offsetFromNow(t, value) == t + value * HoursPerDay

(***************************************************************************)
(* determineRerunnability, its pure parts.                                 *)
(***************************************************************************)
checkRunsToConsider(runs, fo) ==
  IF fo
    THEN LET IsFailure(cr) == cr.conclusion = Failure
         IN SelectSeq(runs, IsFailure)
    ELSE runs

\* checkSuiteIds as an array, duplicates kept
checkSuiteIdsNotASet(considered) ==
  [i \in 1..Len(considered) |-> considered[i].checkSuiteId]

checkSuiteIds(considered) ==
  SetOf([i \in 1..Len(considered) |-> considered[i].checkSuiteId])

\* the ids a fetch is issued for: the loop skips null
FetchedIds(ids) ==
  LET NotNull(id) == id # NullId
  IN SelectSeq(ids, NotNull)

\* IsRerequestable without the test of the suite's status
IsRerequestableAnyStatus(cs, t) ==
  /\ cs.rerequestable
  /\ DateParse(cs.created_at) > offsetFromNow(t, -RerunWindowDays)

\* IsRerequestable with an inclusive age cutoff
IsRerequestableInclusive(cs, t) ==
  /\ cs.rerequestable
  /\ DateParse(cs.created_at) >= offsetFromNow(t, -RerunWindowDays)
  /\ cs.status = Completed

\* the three clauses a fetched suite has to pass
IsRerequestable(cs, t) ==
  /\ cs.rerequestable
  /\ DateParse(cs.created_at) > offsetFromNow(t, -RerunWindowDays)
  /\ cs.status = Completed

\* the loop over the settled promises ending at the first null result
RECURSIVE rerequestableCheckSuiteIdsUntilNull(_, _)
rerequestableCheckSuiteIdsUntilNull(settled, t) ==
  IF settled = <<>> \/ Head(settled).kind = "null" THEN <<>>
  ELSE LET rest == rerequestableCheckSuiteIdsUntilNull(Tail(settled), t)
       IN IF IsRerequestable(Head(settled), t)
            THEN <<Head(settled).id>> \o rest
            ELSE rest

\* the loop over the settled promises: null results are skipped
rerequestableCheckSuiteIds(settled, t) ==
  LET Passes(cs) == cs.kind # "null" /\ IsRerequestable(cs, t)
      kept == SelectSeq(settled, Passes)
  IN [i \in 1..Len(kept) |-> kept[i].id]

Rerunnable(considered, ids) ==
  LET Test(cr) == cr.checkSuiteId # NullId /\ Includes(ids, cr.checkSuiteId)
  IN SelectSeq(considered, Test)

\* nonRerunnable without the failed-only clause
NonRerunnableBySuiteOnly(runs, fo, ids) ==
  LET Test(cr) ==
        \/ cr.checkSuiteId = NullId
        \/ ~Includes(ids, cr.checkSuiteId)
  IN SelectSeq(runs, Test)

NonRerunnable(runs, fo, ids) ==
  LET Test(cr) ==
        \/ cr.checkSuiteId = NullId
        \/ ~Includes(ids, cr.checkSuiteId)
        \/ (fo /\ cr.conclusion = Failure)
  IN SelectSeq(runs, Test)

(***************************************************************************)
(* The promises returned by dispatcher.fetchCheckSuite.                    *)
(***************************************************************************)
Pending(id) ==
  [kind |-> "pending", id |-> id, rerequestable |-> FALSE,
   status |-> Completed, created_at |-> <<0, 0>>]

\* what a fetch for id can settle to: a rejection, null, or a suite
Rejected(id) == [Pending(id) EXCEPT !.kind = "rejected"]
NullResult(id) == [Pending(id) EXCEPT !.kind = "null"]
Suites(id) ==
  [kind : {"suite"}, id : {id}, rerequestable : BOOLEAN,
   status : Statuses, created_at : CreatedAts]
Settlements(id) == {Rejected(id), NullResult(id)} \cup Suites(id)

IssueFetches(runs, fo) ==
  LET ids == FetchedIds(checkSuiteIds(checkRunsToConsider(runs, fo)))
  IN [i \in 1..Len(ids) |-> Pending(ids[i])]

AnyRejected == \E i \in 1..Len(checkSuitesPromises) : checkSuitesPromises[i].kind = "rejected"
AllResolved ==
  \A i \in 1..Len(checkSuitesPromises) : checkSuitesPromises[i].kind \in {"null", "suite"}

(***************************************************************************)
(* The state after the constructor: the state is initialised and           *)
(* determineRerunnability has run up to its await, every fetch issued.     *)
(***************************************************************************)
Init ==
  /\ checkRuns \in CheckRunLists
  /\ failedOnly \in BOOLEAN
  /\ prRef \in PrRefs
  /\ loadingCheckSuites = TRUE
  /\ loadingRerun = FALSE
  /\ rerunnable = <<>>
  /\ nonRerunnable = <<>>
  /\ checkSuitesPromises = IssueFetches(checkRuns, failedOnly)
  /\ classPc = "await"
  /\ now = 0
  /\ subs = <<>>
  /\ rerequestCalls = <<>>
  /\ refreshCalls = <<>>
  /\ recordCalls = 0
  /\ dismissCalls = 0

\* a fetchCheckSuite promise settles
FetchSettle(i) ==
  /\ checkSuitesPromises[i].kind = "pending"
  /\ \E r \in Settlements(checkSuitesPromises[i].id) :
       checkSuitesPromises' = [checkSuitesPromises EXCEPT ![i] = r]
  /\ UNCHANGED <<props, loadingCheckSuites, loadingRerun, rerunnable,
                 nonRerunnable, classPc, now, subs, calls>>

\* Promise.all rejects with the first rejection: the await throws and
\* determineRerunnability ends without reaching its setState
ClassifyReject ==
  /\ classPc = "await"
  /\ AnyRejected
  /\ classPc' = "rejected"
  /\ UNCHANGED <<props, loadingCheckSuites, loadingRerun, rerunnable,
                 nonRerunnable, checkSuitesPromises, now, subs, calls>>

\* determineRerunnability going on without waiting for every fetch
ClassifyResolveWithoutJoin ==
  /\ classPc = "await"
  /\ ~AnyRejected
  /\ \E t \in Nows :
       LET considered == checkRunsToConsider(checkRuns, failedOnly)
           ids == rerequestableCheckSuiteIds(checkSuitesPromises, t)
       IN /\ now' = t
          /\ rerunnable' = Rerunnable(considered, ids)
          /\ nonRerunnable' = NonRerunnable(checkRuns, failedOnly, ids)
  /\ loadingCheckSuites' = FALSE
  /\ classPc' = "done"
  /\ UNCHANGED <<props, loadingRerun, checkSuitesPromises, subs, calls>>

\* Promise.all resolves: the rest of determineRerunnability runs, in one
\* stretch, with t the time its eligibility tests read
ClassifyResolve ==
  /\ classPc = "await"
  /\ AllResolved
  /\ \E t \in Nows :
       LET considered == checkRunsToConsider(checkRuns, failedOnly)
           ids == rerequestableCheckSuiteIds(checkSuitesPromises, t)
       IN /\ now' = t
          /\ rerunnable' = Rerunnable(considered, ids)
          /\ nonRerunnable' = NonRerunnable(checkRuns, failedOnly, ids)
  /\ loadingCheckSuites' = FALSE
  /\ classPc' = "done"
  /\ UNCHANGED <<props, loadingRerun, checkSuitesPromises, subs, calls>>


(***************************************************************************)
(* render: what the component hands to Dialog and OkCancelButtonGroup.     *)
(***************************************************************************)
\* render with the OK button never disabled
renderOkEnabled ==
  [onSubmit |-> "onSubmit",
   onDismissed |-> "props.onDismissed",
   loading |-> (loadingCheckSuites \/ loadingRerun),
   okButtonDisabled |-> FALSE]

\* render with loading not covering the submission
renderLoadingChecksOnly ==
  [onSubmit |-> "onSubmit",
   onDismissed |-> "props.onDismissed",
   loading |-> loadingCheckSuites,
   okButtonDisabled |-> (Len(rerunnable) = 0)]

\* render handing Dialog no onDismissed while it is loading
renderNoDismissWhileLoading ==
  [onSubmit |-> "onSubmit",
   onDismissed |-> IF loadingCheckSuites \/ loadingRerun
                     THEN "none" ELSE "props.onDismissed",
   loading |-> (loadingCheckSuites \/ loadingRerun),
   okButtonDisabled |-> (Len(rerunnable) = 0)]

render ==
  [onSubmit |-> "onSubmit",
   onDismissed |-> "props.onDismissed",
   loading |-> (loadingCheckSuites \/ loadingRerun),
   okButtonDisabled |-> (Len(rerunnable) = 0)]

(***************************************************************************)
(* Dialog, OkCancelButtonGroup and the owner of the dialog.                *)
(***************************************************************************)
\* the owner closes the dialog the first time onDismissed is called
DialogOpen == dismissCalls = 0

\* confirm: the OK button submits unless it is disabled or the dialog is busy
DialogCanSubmit(p) ==
  /\ p.onSubmit = "onSubmit"
  /\ ~p.okButtonDisabled
  /\ ~p.loading

\* cancel: the dialog can be dismissed whenever a handler is wired
DialogCanDismiss(p) == p.onDismissed = "props.onDismissed"

(***************************************************************************)
(* onSubmit, one action per stretch between its awaits.                    *)
(***************************************************************************)
\* onSubmit whose setState also puts loadingCheckSuites back to true
ConfirmResetsLoadingCheckSuites ==
  /\ DialogOpen
  /\ DialogCanSubmit(render)
  /\ Len(subs) < MaxSubmits
  /\ loadingRerun' = TRUE
  /\ loadingCheckSuites' = TRUE
  /\ rerequestCalls' =
       Append(rerequestCalls, [runs |-> rerunnable, failedOnly |-> failedOnly])
  /\ subs' = Append(subs, "rerequest")
  /\ UNCHANGED <<props, rerunnable, nonRerunnable,
                 checkSuitesPromises, classPc, now, refreshCalls, recordCalls,
                 dismissCalls>>

\* onSubmit requesting the refresh without awaiting rerequestCheckSuites
ConfirmRefreshNotAwaited ==
  /\ DialogOpen
  /\ DialogCanSubmit(render)
  /\ Len(subs) < MaxSubmits
  /\ loadingRerun' = TRUE
  /\ rerequestCalls' =
       Append(rerequestCalls, [runs |-> rerunnable, failedOnly |-> failedOnly])
  /\ refreshCalls' = Append(refreshCalls, [ref |-> prRef, runs |-> rerunnable])
  /\ subs' = Append(subs, "rerequest")
  /\ UNCHANGED <<props, loadingCheckSuites, rerunnable, nonRerunnable,
                 checkSuitesPromises, classPc, now, recordCalls, dismissCalls>>

\* confirm: onSubmit up to its first await
Confirm ==
  /\ DialogOpen
  /\ DialogCanSubmit(render)
  /\ Len(subs) < MaxSubmits
  /\ loadingRerun' = TRUE
  /\ rerequestCalls' =
       Append(rerequestCalls, [runs |-> rerunnable, failedOnly |-> failedOnly])
  /\ subs' = Append(subs, "rerequest")
  /\ UNCHANGED <<props, loadingCheckSuites, rerunnable, nonRerunnable,
                 checkSuitesPromises, classPc, now, refreshCalls, recordCalls,
                 dismissCalls>>

\* onSubmit refreshing for every check run instead of the rerunnable ones
RerequestResolveAllRuns(k) ==
  /\ subs[k] = "rerequest"
  /\ refreshCalls' = Append(refreshCalls, [ref |-> prRef, runs |-> checkRuns])
  /\ subs' = [subs EXCEPT ![k] = "refresh"]
  /\ UNCHANGED <<props, loadingCheckSuites, loadingRerun, rerunnable,
                 nonRerunnable, checkSuitesPromises, classPc, now,
                 rerequestCalls, recordCalls, dismissCalls>>

\* rerequestCheckSuites resolves: onSubmit goes on to its second await
RerequestResolve(k) ==
  /\ subs[k] = "rerequest"
  /\ refreshCalls' = Append(refreshCalls, [ref |-> prRef, runs |-> rerunnable])
  /\ subs' = [subs EXCEPT ![k] = "refresh"]
  /\ UNCHANGED <<props, loadingCheckSuites, loadingRerun, rerunnable,
                 nonRerunnable, checkSuitesPromises, classPc, now,
                 rerequestCalls, recordCalls, dismissCalls>>

\* onSubmit catching the rejection and calling onDismissed
RerequestRejectDismisses(k) ==
  /\ subs[k] = "rerequest"
  /\ subs' = [subs EXCEPT ![k] = "rerequestFailed"]
  /\ dismissCalls' = dismissCalls + 1
  /\ UNCHANGED <<props, loadingCheckSuites, loadingRerun, rerunnable,
                 nonRerunnable, checkSuitesPromises, classPc, now,
                 rerequestCalls, refreshCalls, recordCalls>>

\* rerequestCheckSuites rejects: the await throws and onSubmit ends
RerequestReject(k) ==
  /\ subs[k] = "rerequest"
  /\ subs' = [subs EXCEPT ![k] = "rerequestFailed"]
  /\ UNCHANGED <<props, loadingCheckSuites, loadingRerun, rerunnable,
                 nonRerunnable, checkSuitesPromises, classPc, now, calls>>

\* onSubmit ending after recordRerunChecks, onDismissed not called
RefreshResolveNoDismiss(k) ==
  /\ subs[k] = "refresh"
  /\ recordCalls' = recordCalls + 1
  /\ subs' = [subs EXCEPT ![k] = "done"]
  /\ UNCHANGED <<props, loadingCheckSuites, loadingRerun, rerunnable,
                 nonRerunnable, checkSuitesPromises, classPc, now,
                 rerequestCalls, refreshCalls, dismissCalls>>

\* manualRefreshSubscription resolves: onSubmit runs to its end
RefreshResolve(k) ==
  /\ subs[k] = "refresh"
  /\ recordCalls' = recordCalls + 1
  /\ dismissCalls' = dismissCalls + 1
  /\ subs' = [subs EXCEPT ![k] = "done"]
  /\ UNCHANGED <<props, loadingCheckSuites, loadingRerun, rerunnable,
                 nonRerunnable, checkSuitesPromises, classPc, now,
                 rerequestCalls, refreshCalls>>

\* manualRefreshSubscription rejects: the await throws and onSubmit ends
RefreshReject(k) ==
  /\ subs[k] = "refresh"
  /\ subs' = [subs EXCEPT ![k] = "refreshFailed"]
  /\ UNCHANGED <<props, loadingCheckSuites, loadingRerun, rerunnable,
                 nonRerunnable, checkSuitesPromises, classPc, now, calls>>

\* cancel: Dialog calls the onDismissed it was given
Cancel ==
  /\ DialogOpen
  /\ DialogCanDismiss(render)
  /\ dismissCalls' = dismissCalls + 1
  /\ UNCHANGED <<props, loadingCheckSuites, loadingRerun, rerunnable,
                 nonRerunnable, checkSuitesPromises, classPc, now, subs,
                 rerequestCalls, refreshCalls, recordCalls>>

Next ==
  \/ \E i \in 1..Len(checkSuitesPromises) : FetchSettle(i)
  \/ ClassifyReject
  \/ ClassifyResolve
  \/ Confirm
  \/ \E k \in 1..Len(subs) : RerequestResolve(k)
  \/ \E k \in 1..Len(subs) : RerequestReject(k)
  \/ \E k \in 1..Len(subs) : RefreshResolve(k)
  \/ \E k \in 1..Len(subs) : RefreshReject(k)
  \/ Cancel

Spec == Init /\ [][Next]_vars

(***************************************************************************)
(* The same program with its scheduling.  The event loop runs the          *)
(* continuation of an await whose promise has settled: once every fetch    *)
(* has resolved, determineRerunnability goes on to its setState.           *)
(***************************************************************************)
FairSpec ==
  /\ Spec
  /\ WF_vars(ClassifyResolve)

(***************************************************************************)
(* A request the dispatcher has taken settles, one way or the other, and   *)
(* onSubmit goes on from its await.                                        *)
(***************************************************************************)
RerequestSettles == \E k \in 1..Len(subs) : RerequestResolve(k) \/ RerequestReject(k)
RefreshSettles == \E k \in 1..Len(subs) : RefreshResolve(k) \/ RefreshReject(k)

FairSubmitSpec ==
  /\ Spec
  /\ WF_vars(RerequestSettles)
  /\ WF_vars(RefreshSettles)


(***************************************************************************)
(* Vocabulary of the properties.                                           *)
(***************************************************************************)
Runs == {checkRuns[i] : i \in 1..Len(checkRuns)}
Promises == {checkSuitesPromises[j] : j \in 1..Len(checkSuitesPromises)}
Classified == classPc = "done"
\* the state of the resolver: Classifying, Ready, Submitting or Done
Phase ==
  IF ~DialogOpen THEN "Done"
  ELSE IF loadingCheckSuites THEN "Classifying"
  ELSE IF loadingRerun THEN "Submitting"
  ELSE "Ready"
InWorkingSubset(cr) == ~failedOnly \/ cr.conclusion = Failure
WindowHours == RerunWindowDays * HoursPerDay
\* hours between the creation of a fetched suite and the time of the test
AgeHours(cs) == now - DateParse(cs.created_at)
\* the fetch for suite id returned a suite passing all three clauses
FetchedEligible(id) ==
  \E cs \in Promises :
    /\ cs.id = id
    /\ cs.kind = "suite"
    /\ cs.rerequestable
    /\ cs.status = Completed
    /\ AgeHours(cs) < WindowHours
InFlight == {k \in 1..Len(subs) : subs[k] \in {"rerequest", "refresh"}}
RerequestResolved == {k \in 1..Len(subs) : subs[k] \in {"refresh", "refreshFailed", "done"}}
RefreshResolved == {k \in 1..Len(subs) : subs[k] = "done"}

(***************************************************************************)
(* C1: once classification has settled, every input run is in exactly one  *)
(* of rerunnable and nonRerunnable, and a run with a null suite id is in   *)
(* nonRerunnable and not in rerunnable.                                    *)
(***************************************************************************)
C1_ExactPartition ==
  Classified =>
    \A cr \in Runs :
      /\ Includes(rerunnable, cr) # Includes(nonRerunnable, cr)
      /\ cr.checkSuiteId = NullId =>
           Includes(nonRerunnable, cr) /\ ~Includes(rerunnable, cr)

(***************************************************************************)
(* C2: when the fetch of one suite has rejected and the fetch of another   *)
(* has resolved with an eligible suite, classification, once it has moved  *)
(* on from its await, has completed: loading is false, no run of the       *)
(* rejected suite is rerunnable and every considered run of the eligible   *)
(* suite is.                                                               *)
(***************************************************************************)
C2_RejectionTolerated ==
  \A a, b \in Promises :
    ( /\ classPc # "await"
      /\ a.kind = "rejected"
      /\ b.kind = "suite"
      /\ \A t \in Nows : IsRerequestable(b, t) )
    => /\ ~loadingCheckSuites
       /\ \A cr \in Runs :
            /\ cr.checkSuiteId = a.id => ~Includes(rerunnable, cr)
            /\ (cr.checkSuiteId = b.id /\ InWorkingSubset(cr)) =>
                 Includes(rerunnable, cr)

(***************************************************************************)
(* C3: a step that issues rerequestCheckSuites is taken only in the Ready  *)
(* state, classification completed, with rerunnable non-empty, and the     *)
(* request it issues carries a non-empty list of runs.                     *)
(***************************************************************************)
C3_SubmitOnlyWhenReady ==
  [][Len(rerequestCalls') > Len(rerequestCalls) =>
       /\ Phase = "Ready"
       /\ Classified
       /\ Len(rerunnable) > 0
       /\ rerequestCalls'[Len(rerequestCalls')].runs # <<>>]_vars

C3_Witness ==
  /\ Len(rerequestCalls) = 1
  /\ rerequestCalls[1].runs # <<>>
  /\ loadingRerun

(***************************************************************************)
(* C4: after classification a run is in rerunnable if and only if it is in *)
(* the working subset, has a suite id, and the fetch for that suite        *)
(* returned a suite that is rerequestable, completed and created less than *)
(* 30 days before; rerunnable holds input runs only.                       *)
(***************************************************************************)
C4_RerunnableIff ==
  Classified =>
    /\ \A cr \in Runs :
         Includes(rerunnable, cr) <=>
           /\ InWorkingSubset(cr)
           /\ cr.checkSuiteId # NullId
           /\ FetchedEligible(cr.checkSuiteId)
    /\ \A i \in 1..Len(rerunnable) : rerunnable[i] \in Runs

C4_Witness ==
  /\ Classified
  /\ \E cr \in Runs : Includes(rerunnable, cr)
  /\ \E cr \in Runs, cs \in Promises :
       /\ cs.id = cr.checkSuiteId
       /\ cs.kind = "suite"
       /\ cs.status # Completed
       /\ cs.rerequestable
       /\ AgeHours(cs) < WindowHours
       /\ ~Includes(rerunnable, cr)

(***************************************************************************)
(* C5: the age cutoff is exclusive.  A fetched suite created exactly 30    *)
(* days before the test, or earlier, has no rerunnable run; one created    *)
(* any later has all its considered runs rerunnable when it is also        *)
(* rerequestable and completed.                                            *)
(***************************************************************************)
C5_ExclusiveCutoff ==
  Classified =>
    \A cs \in Promises :
      cs.kind = "suite" =>
        /\ AgeHours(cs) >= WindowHours =>
             \A cr \in Runs : cr.checkSuiteId = cs.id => ~Includes(rerunnable, cr)
        /\ (AgeHours(cs) < WindowHours /\ cs.rerequestable /\ cs.status = Completed) =>
             \A cr \in Runs :
               (cr.checkSuiteId = cs.id /\ InWorkingSubset(cr)) =>
                 Includes(rerunnable, cr)

\* one suite exactly 30 days old left out, one 29 days 23 hours old taken
C5_Witness ==
  /\ Classified
  /\ \E old, young \in Promises :
       /\ old.kind = "suite" /\ old.rerequestable /\ old.status = Completed
       /\ AgeHours(old) = WindowHours
       /\ young.kind = "suite" /\ young.rerequestable /\ young.status = Completed
       /\ AgeHours(young) = WindowHours - 1
       /\ \E cr \in Runs : cr.checkSuiteId = old.id /\ ~Includes(rerunnable, cr)
       /\ \E cr \in Runs : cr.checkSuiteId = young.id /\ Includes(rerunnable, cr)

(***************************************************************************)
(* C6: with failedOnly, when some run failed and every failed run belongs   *)
(* to an eligible suite, rerunnable is exactly the failed runs and no run  *)
(* with another conclusion is in rerunnable or in nonRerunnable.           *)
(***************************************************************************)
C6_FailedOnlyCounts ==
  ( /\ Classified
    /\ failedOnly
    /\ \E cr \in Runs : cr.conclusion = Failure
    /\ \A cr \in Runs :
         cr.conclusion = Failure =>
           cr.checkSuiteId # NullId /\ FetchedEligible(cr.checkSuiteId) )
  => /\ rerunnable = checkRunsToConsider(checkRuns, TRUE)
     /\ \A cr \in Runs :
          cr.conclusion # Failure =>
            ~Includes(rerunnable, cr) /\ ~Includes(nonRerunnable, cr)

(***************************************************************************)
(* C7: once onDismissed has been called, no step changes                   *)
(* loadingCheckSuites, rerunnable or nonRerunnable.                        *)
(***************************************************************************)
C7_NoUpdateAfterDismissal ==
  [][dismissCalls > 0 =>
       UNCHANGED <<loadingCheckSuites, rerunnable, nonRerunnable>>]_vars

(***************************************************************************)
(* C8: rerequestCheckSuites is requested at most once, at most one         *)
(* submission is in flight, and while loadingRerun is set the dialog does  *)
(* not take a confirm.                                                     *)
(***************************************************************************)
C8_NoDuplicateSubmission ==
  /\ Len(rerequestCalls) <= 1
  /\ Cardinality(InFlight) <= 1
  /\ loadingRerun => ~(DialogOpen /\ DialogCanSubmit(render))

C8_Witness ==
  /\ loadingRerun
  /\ DialogOpen
  /\ Len(rerequestCalls) = 1
  /\ Cardinality(InFlight) = 1

(***************************************************************************)
(* C9: every manualRefreshSubscription request belongs to a submission     *)
(* whose rerequestCheckSuites has resolved, and every recordRerunChecks    *)
(* call, and every onDismissed call but a cancel's, to one whose refresh   *)
(* has resolved.                                                           *)
(***************************************************************************)
C9_SubmissionOrder ==
  /\ Len(refreshCalls) = Cardinality(RerequestResolved)
  /\ recordCalls = Cardinality(RefreshResolved)
  /\ dismissCalls <= Cardinality(RefreshResolved) + 1
  /\ dismissCalls >= Cardinality(RefreshResolved)

C9_Witness ==
  /\ Len(rerequestCalls) = 1
  /\ Len(refreshCalls) = 1
  /\ recordCalls = 1
  /\ dismissCalls = 1

(***************************************************************************)
(* C10: while the dialog is open, whether classifying, ready or            *)
(* submitting, a cancel can be taken, and it calls onDismissed once and    *)
(* requests no rerun, no refresh and no telemetry.                         *)
(***************************************************************************)
C10_CancelAlwaysEnabled ==
  Phase \in {"Classifying", "Ready", "Submitting"} =>
    ENABLED ( /\ Cancel
              /\ dismissCalls' = dismissCalls + 1
              /\ UNCHANGED <<rerequestCalls, refreshCalls, recordCalls, subs>> )

\* a cancel taken while a submission awaits rerequestCheckSuites
C10_Witness ==
  /\ dismissCalls = 1
  /\ loadingRerun
  /\ Len(subs) = 1
  /\ subs[1] = "rerequest"
  /\ refreshCalls = <<>>


(***************************************************************************)
(* C11: after classification nonRerunnable is exactly the runs of the full *)
(* input list, in their order, whose suite id is null, or whose suite is   *)
(* not eligible, or that failed while failedOnly is set; so with           *)
(* failedOnly every failed run is in nonRerunnable.                        *)
(***************************************************************************)
C11_NonRerunnableExactly ==
  Classified =>
    /\ LET Lands(cr) ==
             \/ cr.checkSuiteId = NullId
             \/ ~FetchedEligible(cr.checkSuiteId)
             \/ (failedOnly /\ cr.conclusion = Failure)
       IN nonRerunnable = SelectSeq(checkRuns, Lands)
    /\ failedOnly =>
         \A cr \in Runs : cr.conclusion = Failure => Includes(nonRerunnable, cr)

\* a failed run of an eligible suite, listed as not rerunnable
C11_Witness ==
  /\ Classified
  /\ failedOnly
  /\ \E cr \in Runs :
       /\ cr.conclusion = Failure
       /\ cr.checkSuiteId # NullId
       /\ FetchedEligible(cr.checkSuiteId)
       /\ Includes(nonRerunnable, cr)
       /\ Includes(rerunnable, cr)


(***************************************************************************)
(* C12: every rerequestCheckSuites call carries the rerunnable list that   *)
(* classification produced and the failedOnly prop; every                  *)
(* manualRefreshSubscription call carries the prRef prop and the same list *)
(* as the rerequestCheckSuites call of its submission.                     *)
(***************************************************************************)
C12_SameRunsSubmittedAndRefreshed ==
  /\ \A i \in 1..Len(rerequestCalls) :
       /\ Classified
       /\ rerequestCalls[i].runs = rerunnable
       /\ rerequestCalls[i].runs =
            Rerunnable(checkRunsToConsider(checkRuns, failedOnly),
                       rerequestableCheckSuiteIds(checkSuitesPromises, now))
       /\ rerequestCalls[i].failedOnly = failedOnly
  /\ \A j \in 1..Len(refreshCalls) :
       /\ j <= Len(rerequestCalls)
       /\ refreshCalls[j].runs = rerequestCalls[j].runs
       /\ refreshCalls[j].runs = rerunnable
       /\ refreshCalls[j].ref = prRef

\* both requests made, for a list that is not the whole input
C12_Witness ==
  /\ Len(rerequestCalls) = 1
  /\ Len(refreshCalls) = 1
  /\ refreshCalls[1].runs # <<>>
  /\ refreshCalls[1].runs # checkRuns


(***************************************************************************)
(* C13: classification is a join over the fetches.  The list of fetches is *)
(* fixed from the start; loadingCheckSuites is false only when every fetch *)
(* has resolved; rerunnable and nonRerunnable are empty as long as it is   *)
(* true; and once every fetch has resolved, loadingCheckSuites eventually  *)
(* becomes false.  The last part is stated as: fetches that have all       *)
(* resolved stay so, and again and again some fetch is unresolved or       *)
(* loadingCheckSuites is false.                                            *)
(***************************************************************************)
C13_JoinOverFetches ==
  /\ [][Len(checkSuitesPromises') = Len(checkSuitesPromises)]_vars
  /\ [](~loadingCheckSuites => AllResolved)
  /\ [](loadingCheckSuites => rerunnable = <<>> /\ nonRerunnable = <<>>)
  /\ [][AllResolved => AllResolved']_vars
  /\ []<>(~AllResolved \/ ~loadingCheckSuites)

\* two fetches joined and a non-empty result
C13_Witness ==
  /\ Len(checkSuitesPromises) = 2
  /\ AllResolved
  /\ ~loadingCheckSuites
  /\ rerunnable # <<>>


(***************************************************************************)
(* C14: the result of classification does not depend on the order in      *)
(* which the fetches settle.  A settling fetch fills its own place in the  *)
(* list of promises, whatever has settled before it, and changes nothing   *)
(* else; and the lists classification writes are those computed from the   *)
(* input, failedOnly, the time of the test and the set of the outcomes of  *)
(* the fetches, each known by its suite id.                                *)
(***************************************************************************)
\* the suites whose fetch returned an eligible suite, from the set of
\* outcomes
EligibleSuiteIds ==
  {cs.id : cs \in {p \in Promises : p.kind = "suite" /\ IsRerequestable(p, now)}}

ResultRerunnable ==
  LET ids == EligibleSuiteIds
      Eligible(cr) == cr.checkSuiteId \in ids
  IN SelectSeq(checkRunsToConsider(checkRuns, failedOnly), Eligible)

ResultNonRerunnable ==
  LET ids == EligibleSuiteIds
      Lands(cr) ==
        \/ cr.checkSuiteId \notin ids
        \/ (failedOnly /\ cr.conclusion = Failure)
  IN SelectSeq(checkRuns, Lands)

C14_SettleOrderIrrelevant ==
  /\ [][checkSuitesPromises' # checkSuitesPromises =>
          /\ \E i \in 1..Len(checkSuitesPromises) :
               /\ checkSuitesPromises[i].kind = "pending"
               /\ checkSuitesPromises'[i].kind # "pending"
               /\ checkSuitesPromises'[i].id = checkSuitesPromises[i].id
               /\ \A j \in 1..Len(checkSuitesPromises) :
                    j # i => checkSuitesPromises'[j] = checkSuitesPromises[j]
          /\ UNCHANGED <<loadingCheckSuites, rerunnable, nonRerunnable>>]_vars
  /\ [](Classified =>
          /\ rerunnable = ResultRerunnable
          /\ nonRerunnable = ResultNonRerunnable)

\* the second fetch issued settled to an eligible suite, the first to null
C14_Witness ==
  /\ Classified
  /\ Len(checkSuitesPromises) = 2
  /\ checkSuitesPromises[1].kind = "null"
  /\ checkSuitesPromises[2].id \in EligibleSuiteIds
  /\ rerunnable # <<>>


(***************************************************************************)
(* C15: the fetches issued are one for every distinct non-null suite id    *)
(* of the working subset and no other: no suite id is fetched twice, none  *)
(* is null, and with failedOnly none belongs only to runs that did not     *)
(* fail.                                                                   *)
(***************************************************************************)
C15_OneFetchPerSuite ==
  LET fetched == [i \in 1..Len(checkSuitesPromises) |-> checkSuitesPromises[i].id]
      wanted == {cr.checkSuiteId : cr \in {r \in Runs : InWorkingSubset(r)}} \ {NullId}
  IN /\ \A i, j \in 1..Len(fetched) : i # j => fetched[i] # fetched[j]
     /\ {fetched[i] : i \in 1..Len(fetched)} = wanted
     /\ Len(fetched) = Cardinality(wanted)

\* two runs of one suite, fetched once, and the fetch has settled
C15_Witness ==
  /\ Len(checkRuns) = 2
  /\ checkRuns[1].checkSuiteId = checkRuns[2].checkSuiteId
  /\ InWorkingSubset(checkRuns[1])
  /\ InWorkingSubset(checkRuns[2])
  /\ Len(checkSuitesPromises) = 1
  /\ checkSuitesPromises[1].kind = "suite"


(***************************************************************************)
(* C16: a started submission whose two requests resolve records the rerun  *)
(* once and then calls onDismissed: the step that ends the refresh await   *)
(* records once and dismisses in one go, a finished submission has the     *)
(* resolver Done with one record per finished submission, and every        *)
(* submission in flight eventually either finishes so or has failed.       *)
(***************************************************************************)
C16_SubmissionCompletes ==
  /\ [][\A k \in 1..Len(subs) :
          (subs[k] = "refresh" /\ subs'[k] = "done") =>
            /\ recordCalls' = recordCalls + 1
            /\ dismissCalls' = dismissCalls + 1]_vars
  /\ [](recordCalls = Cardinality({k \in 1..Len(subs) : subs[k] = "done"}))
  /\ [](\A k \in 1..Len(subs) : subs[k] = "done" => Phase = "Done")
  /\ [][\A k \in 1..Len(subs) :
          subs[k] \notin {"rerequest", "refresh"} => subs'[k] = subs[k]]_vars
  /\ []<>(InFlight = {})

\* a submission ran to its end: recorded once, dismissed
C16_Witness ==
  /\ Len(subs) = 1
  /\ subs[1] = "done"
  /\ recordCalls = 1
  /\ dismissCalls = 1
  /\ Len(refreshCalls) = 1


(***************************************************************************)
(* C17: rerunnable, nonRerunnable and loadingCheckSuites change only in    *)
(* the one step that ends the classification, which leaves loadingRerun    *)
(* and the submissions alone; once the classification has ended, by its    *)
(* setState or by a rejection, it never writes again; and a step of a      *)
(* submission changes no state field other than loadingRerun.              *)
(***************************************************************************)
EligibilitySet == <<rerunnable, nonRerunnable, loadingCheckSuites>>

C17_ClassificationOwnsEligibility ==
  /\ [][EligibilitySet' # EligibilitySet =>
          /\ classPc = "await"
          /\ classPc' = "done"
          /\ loadingRerun' = loadingRerun
          /\ subs' = subs]_vars
  /\ [][classPc # "await" =>
          /\ classPc' = classPc
          /\ EligibilitySet' = EligibilitySet]_vars
  /\ [][classPc' # classPc => loadingRerun' = loadingRerun]_vars
  /\ [][(subs' # subs \/ loadingRerun' # loadingRerun) =>
          /\ EligibilitySet' = EligibilitySet
          /\ classPc' = classPc]_vars
  /\ [][loadingRerun' # loadingRerun =>
          /\ ~loadingRerun
          /\ Len(subs') = Len(subs) + 1]_vars

\* both phases have written: the classification its three fields, a
\* submission loadingRerun
C17_Witness ==
  /\ Classified
  /\ ~loadingCheckSuites
  /\ rerunnable # <<>>
  /\ nonRerunnable # <<>>
  /\ loadingRerun
  /\ subs # <<>>


(***************************************************************************)
(* C18: a rejection of rerequestCheckSuites or of manualRefreshSubscription*)
(* ends the submission where it is: the step makes no call and leaves      *)
(* loadingRerun true, the submission does nothing afterwards, the refresh  *)
(* is requested only by submissions whose rerequest resolved and the rerun *)
(* is recorded only by those whose refresh resolved, onDismissed is called *)
(* only by a finishing submission or by a cancel, and until a cancel the   *)
(* resolver stays Submitting.                                              *)
(***************************************************************************)
Failed == {k \in 1..Len(subs) : subs[k] \in {"rerequestFailed", "refreshFailed"}}

C18_RejectionStopsSubmission ==
  /\ [][\A k \in 1..Len(subs) :
          (k \notin Failed /\ subs'[k] \in {"rerequestFailed", "refreshFailed"}) =>
            /\ UNCHANGED calls
            /\ loadingRerun
            /\ loadingRerun'
            /\ subs'[k] = (IF subs[k] = "rerequest" THEN "rerequestFailed"
                           ELSE "refreshFailed")]_vars
  /\ [][\A k \in Failed : subs'[k] = subs[k]]_vars
  /\ [](Len(refreshCalls) = Cardinality(RerequestResolved))
  /\ [](recordCalls = Cardinality(RefreshResolved))
  /\ [][dismissCalls' # dismissCalls =>
          \/ subs' = subs
          \/ \E k \in 1..Len(subs) : subs[k] = "refresh" /\ subs'[k] = "done"]_vars
  /\ [](Failed # {} => loadingRerun)
  /\ [](Failed # {} /\ DialogOpen => Phase = "Submitting")

\* the rerequest was rejected: no refresh, no record, no dismissal, and
\* the resolver is still Submitting
C18_Witness ==
  /\ Len(subs) = 1
  /\ subs[1] = "rerequestFailed"
  /\ Len(rerequestCalls) = 1
  /\ refreshCalls = <<>>
  /\ recordCalls = 0
  /\ dismissCalls = 0
  /\ Phase = "Submitting"


(***************************************************************************)
(* C19: onDismissed is called at most once, whatever the interleaving of   *)
(* cancel and confirm; a cancel taken while a submission is in flight is   *)
(* not followed by a second call when the submission finishes.             *)
(***************************************************************************)
C19_DismissedAtMostOnce == dismissCalls <= 1

=============================================================================
